---- MODULE Spec2Model ----
(***************************************************************************)
(* A model of the FPGA_Router design loader: the byte-buffer tokenizer     *)
(* (FastParser), the four loaders of Design (loadInfo, loadFpgaMapping,    *)
(* loadNets, loadTopo) and the two analyses over the loaded model (the     *)
(* logical-demand matrix of generateVisualizationData and                  *)
(* groupNetsByFpgaConnection).                                             *)
(*                                                                         *)
(* A file is a sequence of one-character strings.  The loaders run one     *)
(* outer-loop iteration per step; the inner loops are recursive operators. *)
(* Pointers are modelled by what they designate: an FPGA* is the 1-based   *)
(* slot of fpgas_ (0 is nullptr), a Node* is the key of nodes_.            *)
(***************************************************************************)
EXTENDS Integers, Sequences, FiniteSets

(***************************************************************************)
(* Bounds of the input files the loaders are run on.                       *)
(***************************************************************************)
\* Lines (records) per input file.
MaxLines == 2

\* The largest FPGA id an input file names.
MaxFpgaId == 2

\* The maxIo values of design.info (one of them of two digits).
IoVals == {0, 7, 12}

\* The character after the last byte of a file: buffer_[file_size_] = '\0'.
NUL == "NUL"

Digits == <<"0", "1", "2", "3", "4", "5", "6", "7", "8", "9">>

IsDigit(c) == \E d \in 1..10 : Digits[d] = c

DigitVal(c) == (CHOOSE d \in 1..10 : Digits[d] = c) - 1

IsSpace(c) == c \in {" ", "\n", "\r", "\t"}

(***************************************************************************)
(* std::to_string of an int, as a sequence of characters.                  *)
(***************************************************************************)
RECURSIVE to_string(_)
to_string(n) ==
    IF n < 0 THEN <<"-">> \o to_string(-n)
    ELSE IF n < 10 THEN <<Digits[n + 1]>>
    ELSE to_string(n \div 10) \o <<Digits[(n % 10) + 1]>>

(***************************************************************************)
(* FastParser.  buf is the file's bytes, pos the offset of current_pos_    *)
(* from buffer_ (0-based).                                                 *)
(***************************************************************************)
\* *current_pos_
CharAt(buf, pos) == IF pos < Len(buf) THEN buf[pos + 1] ELSE NUL

isEOF(buf, pos) == pos >= Len(buf)

RECURSIVE skipWhitespace(_, _)
skipWhitespace(buf, pos) ==
    IF CharAt(buf, pos) # NUL /\ IsSpace(CharAt(buf, pos))
    THEN skipWhitespace(buf, pos + 1)
    ELSE pos

peekNextNonWhitespaceChar(buf, pos) ==
    LET p == skipWhitespace(buf, pos)
    IN  IF isEOF(buf, p) THEN NUL ELSE CharAt(buf, p)

\* The digit loop of parseInt: val = val * 10 + digit while a digit is read.
RECURSIVE parseDigits(_, _, _)
parseDigits(buf, pos, val) ==
    IF IsDigit(CharAt(buf, pos))
    THEN parseDigits(buf, pos + 1, val * 10 + DigitVal(CharAt(buf, pos)))
    ELSE [val |-> val, pos |-> pos]

parseInt(buf, pos) == parseDigits(buf, skipWhitespace(buf, pos), 0)

parseId(buf, pos, prefix) ==
    LET p == skipWhitespace(buf, pos)
    IN  IF CharAt(buf, p) = prefix THEN parseInt(buf, p + 1) ELSE parseInt(buf, p)

skipChar(buf, pos, c) ==
    LET p == skipWhitespace(buf, pos)
    IN  IF CharAt(buf, p) = c THEN skipWhitespace(buf, p + 1)
        ELSE skipWhitespace(buf, p)

(***************************************************************************)
(* The text of the input files (main.cpp reads design.info,                *)
(* design.fpga.out, design.net and design.topo), written from their        *)
(* records: one record per line, tokens separated by one blank.            *)
(***************************************************************************)
RECURSIVE Concat(_)
Concat(ss) == IF ss = <<>> THEN <<>> ELSE Head(ss) \o Concat(Tail(ss))

\* "g<n1> g<n2> ...", each id preceded by one blank.
IdList(prefix, ids) ==
    Concat([k \in 1..Len(ids) |-> <<" ", prefix>> \o to_string(ids[k])])

\* "v1,v2,...,vN"
CommaList(vals) ==
    Concat([k \in 1..Len(vals) |->
               (IF k = 1 THEN <<>> ELSE <<",">>) \o to_string(vals[k])])

\* design.info: "F<id> <maxIo>" per line; a record is <<id, maxIo>>.
InfoText(recs) ==
    Concat([k \in 1..Len(recs) |->
               <<"F">> \o to_string(recs[k][1]) \o <<" ">>
                       \o to_string(recs[k][2]) \o <<"\n">>])

\* design.fpga.out: "F<id>: g<n1> g<n2> ..." per line.
MappingText(recs) ==
    Concat([k \in 1..Len(recs) |->
               <<"F">> \o to_string(recs[k].fpga) \o <<":">>
                       \o IdList("g", recs[k].nodes) \o <<"\n">>])

\* design.net: "g<src> <weight> g<sink> ..." per line.
NetText(recs) ==
    Concat([k \in 1..Len(recs) |->
               <<"g">> \o to_string(recs[k].source) \o <<" ">>
                       \o to_string(recs[k].weight)
                       \o IdList("g", recs[k].sinks) \o <<"\n">>])

\* design.topo: "F<id>: v1,...,vN" per line.
TopoText(recs) ==
    Concat([k \in 1..Len(recs) |->
               <<"F">> \o to_string(recs[k].fpga) \o <<":", " ">>
                       \o CommaList(recs[k].row) \o <<"\n">>])

Range(f) == {f[k] : k \in DOMAIN f}

\* The sequences over S of length at most n.
SeqUpTo(S, n) == UNION {[1..k -> S] : k \in 0..n}

(***************************************************************************)
(* The data types of DataTypes.hpp.                                        *)
(***************************************************************************)
\* FPGA() : id(-1), max_io(0)
FPGA_default == [id |-> -1, max_io |-> 0, nodes |-> <<>>]

\* FPGA(fpgaId, maxIo)
FPGA(fpgaId, maxIo) == [id |-> fpgaId, max_io |-> maxIo, nodes |-> <<>>]

\* nullptr
nullptr == 0

\* Node(nodeId) : id(nodeId), fpga(nullptr)
Node(nodeId) == [id |-> nodeId, fpga |-> nullptr]

\* std::vector::resize(n) with value-initialised new elements.
Resize(v, n, fill) == [k \in 1..n |-> IF k <= Len(v) THEN v[k] ELSE fill]

\* An empty std::unordered_map.
EmptyMap == [k \in {} |-> Node(0)]

VARIABLES
    fpgas_,          \* Design::fpgas_: the FPGA of id i is at index i
    nodes_,          \* Design::nodes_: node id -> Node
    nets_,           \* Design::nets_
    topology_,       \* Design::topology_
    pc,              \* the loader that is running, or "idle"
    buffer_,         \* FastParser::buffer_ of the running loader
    current_pos_,    \* FastParser::current_pos_ - buffer_
    max_fpga_id,     \* loadInfo's local
    fpgas_data,      \* loadInfo's local
    net_id_counter,  \* loadNets' local
    thrown,          \* what the last call threw: "none", "logic_error", "out_of_range"
    spin,            \* the running loader repeats an iteration that changes nothing
    called,          \* the last loader called
    input,           \* the records of the file given to the last loader called
    entered,         \* the loaders and analyses whose body has run
    logical_demand,  \* generateVisualizationData's local, as last computed
    connectionGroups,\* groupNetsByFpgaConnection's local, as last computed
    result           \* what groupNetsByFpgaConnection last returned

design == <<fpgas_, nodes_, nets_, topology_>>
parser == <<buffer_, current_pos_>>
locals == <<max_fpga_id, fpgas_data, net_id_counter>>
analysis == <<logical_demand, connectionGroups, result>>
vars == <<fpgas_, nodes_, nets_, topology_, pc, buffer_, current_pos_,
          max_fpga_id, fpgas_data, net_id_counter, thrown, spin, called,
          input, entered, logical_demand, connectionGroups, result>>

\* Design() = default, and no loader running.
Init ==
    /\ fpgas_ = <<>>
    /\ nodes_ = EmptyMap
    /\ nets_ = <<>>
    /\ topology_ = <<>>
    /\ pc = "idle"
    /\ buffer_ = <<>>
    /\ current_pos_ = 0
    /\ max_fpga_id = 0
    /\ fpgas_data = <<>>
    /\ net_id_counter = 0
    /\ thrown = "none"
    /\ spin = FALSE
    /\ called = "none"
    /\ input = <<>>
    /\ entered = {}
    /\ logical_demand = <<>>
    /\ connectionGroups = <<>>
    /\ result = <<>>

\* A loader or an analysis is called when no loader is running; its body runs
\* once per Design.
CanCall(operation) == pc = "idle" /\ operation \notin entered

\* The constructor of FastParser and the entry of a loader's body.
Enter(loader, recs, text) ==
    /\ pc' = loader
    /\ buffer_' = text
    /\ current_pos_' = 0
    /\ thrown' = "none"
    /\ called' = loader
    /\ input' = recs
    /\ entered' = entered \cup {loader}

\* A loader returns or throws: its FastParser and locals are released.
Leave(exception) ==
    /\ pc' = "idle"
    /\ buffer_' = <<>>
    /\ current_pos_' = 0
    /\ max_fpga_id' = 0
    /\ fpgas_data' = <<>>
    /\ net_id_counter' = 0
    /\ thrown' = exception

\* The precondition of a loader fails: std::logic_error, nothing else changes.
ThrowLogicError(loader, recs) ==
    /\ thrown' = "logic_error"
    /\ called' = loader
    /\ input' = recs
    /\ UNCHANGED <<design, pc, parser, locals, spin, entered, analysis>>

(***************************************************************************)
(* Design::loadInfo                                                        *)
(***************************************************************************)
\* The loop over fpgas_data: fpgas_[id - 1] = FPGA(id, maxIo), in parse order.
PlaceFpgas_FirstWins(v, data) ==
    [k \in 1..Len(v) |->
        IF \E d \in 1..Len(data) : data[d][1] = k
        THEN LET d == CHOOSE d \in 1..Len(data) :
                          /\ data[d][1] = k
                          /\ \A e \in 1..(d - 1) : data[e][1] # k
             IN  FPGA(k, data[d][2])
        ELSE v[k]]

RECURSIVE PlaceFpgas(_, _)
PlaceFpgas(v, data) ==
    IF data = <<>> THEN v
    ELSE LET d == Head(data)
         IN  PlaceFpgas(IF d[1] > 0 THEN [v EXCEPT ![d[1]] = FPGA(d[1], d[2])]
                        ELSE v,
                        Tail(data))

\* loadInfo is called on one of the files (each given by its records).
loadInfo_call(files) ==
    /\ CanCall("loadInfo")
    /\ \E recs \in files : Enter("loadInfo", recs, InfoText(recs))
    /\ max_fpga_id' = 0
    /\ fpgas_data' = <<>>
    /\ UNCHANGED <<design, net_id_counter, spin, analysis>>

\* One iteration of the while loop that parses a pair.
loadInfo_iter ==
    /\ pc = "loadInfo" /\ ~spin
    /\ ~isEOF(buffer_, current_pos_)
    /\ LET p == skipWhitespace(buffer_, current_pos_)
       IN  /\ ~isEOF(buffer_, p)
           /\ LET fpga_id == parseId(buffer_, p, "F")
                  max_io == parseInt(buffer_, fpga_id.pos)
              IN  /\ current_pos_' = max_io.pos
                  /\ fpgas_data' = IF fpga_id.val > 0
                                   THEN Append(fpgas_data, <<fpga_id.val, max_io.val>>)
                                   ELSE fpgas_data
                  /\ max_fpga_id' = IF fpga_id.val > max_fpga_id
                                    THEN fpga_id.val ELSE max_fpga_id
                  /\ spin' = (max_io.pos = current_pos_ /\ fpga_id.val <= 0)
    /\ UNCHANGED <<design, pc, buffer_, net_id_counter, thrown, called, input,
                   entered, analysis>>

\* The loop ends; fpgas_ is resized and filled, and loadInfo returns.
loadInfo_return ==
    /\ pc = "loadInfo" /\ ~spin
    /\ isEOF(buffer_, skipWhitespace(buffer_, current_pos_))
    /\ fpgas_' = PlaceFpgas(Resize(fpgas_, max_fpga_id, FPGA_default), fpgas_data)
    /\ Leave("none")
    /\ UNCHANGED <<nodes_, nets_, topology_, spin, called, input, entered, analysis>>

\* The info files the model loads.
InfoFiles == SeqUpTo((1..MaxFpgaId) \X IoVals, MaxLines)

NextInfo ==
    \/ loadInfo_call(InfoFiles)
    \/ loadInfo_iter
    \/ loadInfo_return

\* loadInfo alone, on every info file.
SpecInfo == Init /\ [][NextInfo]_vars

(***************************************************************************)
(* Design::loadFpgaMapping                                                 *)
(***************************************************************************)
\* if (nodes_.find(id) == nodes_.end()) nodes_[id] = Node(id);
\* nodes_[id].fpga = current_fpga;
AssignNode_FirstWins(nodes, node_id, current_fpga) ==
    IF node_id \in DOMAIN nodes THEN nodes
    ELSE [k \in DOMAIN nodes \cup {node_id} |->
             IF k = node_id THEN [Node(node_id) EXCEPT !.fpga = current_fpga]
             ELSE nodes[k]]

AssignNode(nodes, node_id, current_fpga) ==
    [k \in DOMAIN nodes \cup {node_id} |->
        IF k = node_id
        THEN [(IF node_id \in DOMAIN nodes THEN nodes[k] ELSE Node(node_id))
                 EXCEPT !.fpga = current_fpga]
        ELSE nodes[k]]

\* current_fpga->nodes.push_back(&nodes_[node_id])
PushBack_Unique(list, node_id) ==
    IF \E k \in DOMAIN list : list[k] = node_id THEN list
    ELSE Append(list, node_id)

PushBack(list, node_id) == Append(list, node_id)

\* The inner loop: the node ids of one line, until the lookahead is 'F' or the
\* end.  list is current_fpga->nodes.  An iteration that does not move the
\* cursor is followed by the same iteration for ever: spin.
RECURSIVE MappingNodes(_, _, _, _, _)
MappingNodes(buf, pos, current_fpga, nodes, list) ==
    LET stop == [pos |-> pos, nodes |-> nodes, list |-> list, spin |-> FALSE]
    IN  IF isEOF(buf, pos) THEN stop
        ELSE IF peekNextNonWhitespaceChar(buf, pos) \in {"F", NUL} THEN stop
        ELSE LET node_id == parseId(buf, pos, "g")
             IN  IF node_id.pos = pos THEN [stop EXCEPT !.spin = TRUE]
                 ELSE MappingNodes(buf, node_id.pos, current_fpga,
                                   AssignNode(nodes, node_id.val, current_fpga),
                                   PushBack(list, node_id.val))

\* if (fpga_id <= 0 || fpga_id > fpgas_.size()) continue;
MappingIdInvalid(fpga_id, size) == fpga_id <= 0 \/ fpga_id > size

loadFpgaMapping_call(files) ==
    /\ CanCall("loadFpgaMapping")
    /\ fpgas_ # <<>>
    /\ \E recs \in files : Enter("loadFpgaMapping", recs, MappingText(recs))
    /\ UNCHANGED <<design, locals, spin, analysis>>

loadFpgaMapping_throw(files) ==
    /\ CanCall("loadFpgaMapping")
    /\ fpgas_ = <<>>
    /\ \E recs \in files : ThrowLogicError("loadFpgaMapping", recs)

\* One iteration of the outer while loop: one "F<id>:" and, when the id is
\* valid, the node ids that follow it.
loadFpgaMapping_iter ==
    /\ pc = "loadFpgaMapping" /\ ~spin
    /\ ~isEOF(buffer_, current_pos_)
    /\ LET p == skipWhitespace(buffer_, current_pos_)
       IN  /\ ~isEOF(buffer_, p)
           /\ LET fpga_id == parseId(buffer_, p, "F")
                  q == skipChar(buffer_, fpga_id.pos, ":")
              IN  IF MappingIdInvalid(fpga_id.val, Len(fpgas_))
                  THEN /\ current_pos_' = q
                       /\ spin' = (q = current_pos_)
                       /\ UNCHANGED <<fpgas_, nodes_>>
                  ELSE LET r == MappingNodes(buffer_, q, fpga_id.val, nodes_,
                                             fpgas_[fpga_id.val].nodes)
                       IN  /\ current_pos_' = r.pos
                           /\ nodes_' = r.nodes
                           /\ fpgas_' = [fpgas_ EXCEPT ![fpga_id.val].nodes = r.list]
                           /\ spin' = (r.spin \/ r.pos = current_pos_)
    /\ UNCHANGED <<nets_, topology_, pc, buffer_, locals, thrown, called, input,
                   entered, analysis>>

loadFpgaMapping_return ==
    /\ pc = "loadFpgaMapping" /\ ~spin
    /\ isEOF(buffer_, skipWhitespace(buffer_, current_pos_))
    /\ Leave("none")
    /\ UNCHANGED <<design, spin, called, input, entered, analysis>>

\* The node ids of the mapping and net files.
NodeIds == {1, 2}

\* The mapping files the model loads: an FPGA id (MaxFpgaId + 1 is one more
\* than any info file defines) and up to two node ids per line.
MappingFiles ==
    SeqUpTo([fpga : 1..(MaxFpgaId + 1), nodes : SeqUpTo(NodeIds, 2)], MaxLines)

\* The info files loaded before the other files: F1 and F2, and F2 alone.
TwoFpgas == {<<<<1, 7>>, <<2, 12>>>>, <<<<2, 7>>>>}

NextMapping ==
    \/ loadInfo_call(TwoFpgas)
    \/ loadInfo_iter
    \/ loadInfo_return
    \/ loadFpgaMapping_call(MappingFiles)
    \/ loadFpgaMapping_throw({<<>>})
    \/ loadFpgaMapping_iter
    \/ loadFpgaMapping_return

\* loadInfo, then loadFpgaMapping on every mapping file.
SpecMapping == Init /\ [][NextMapping]_vars

(***************************************************************************)
(* Design::loadNets                                                        *)
(***************************************************************************)
\* current_net.id = net_id_counter++: the counter after it.
NextNetId_Stuck(counter) == counter

NextNetId(counter) == counter + 1

\* The inner loop with nodes_[id] for nodes_.at(id): no lookup fails.
RECURSIVE NetSinks_NoThrow(_, _, _, _)
NetSinks_NoThrow(buf, pos, nodes, sinks) ==
    LET stop == [pos |-> pos, sinks |-> sinks, threw |-> FALSE]
    IN  IF isEOF(buf, pos) THEN stop
        ELSE IF peekNextNonWhitespaceChar(buf, pos) # "g" THEN stop
        ELSE LET sink_node_id == parseId(buf, pos, "g")
             IN  NetSinks_NoThrow(buf, sink_node_id.pos, nodes,
                                  Append(sinks, sink_node_id.val))

\* The inner loop: sink ids while the lookahead is 'g'; nodes_.at(id) throws
\* std::out_of_range for an id that is no key of nodes_.
RECURSIVE NetSinks(_, _, _, _)
NetSinks(buf, pos, nodes, sinks) ==
    LET stop == [pos |-> pos, sinks |-> sinks, threw |-> FALSE]
    IN  IF isEOF(buf, pos) THEN stop
        ELSE IF peekNextNonWhitespaceChar(buf, pos) # "g" THEN stop
        ELSE LET sink_node_id == parseId(buf, pos, "g")
             IN  IF sink_node_id.val \notin DOMAIN nodes
                 THEN [stop EXCEPT !.threw = TRUE]
                 ELSE NetSinks(buf, sink_node_id.pos, nodes,
                               Append(sinks, sink_node_id.val))

\* if (nodes_.empty()) throw std::logic_error
NodesEmpty_Unchecked(nodes) == FALSE

NodesEmpty(nodes) == DOMAIN nodes = {}

loadNets_call(files) ==
    /\ CanCall("loadNets")
    /\ ~NodesEmpty(nodes_)
    /\ \E recs \in files : Enter("loadNets", recs, NetText(recs))
    /\ net_id_counter' = 1
    /\ UNCHANGED <<design, max_fpga_id, fpgas_data, spin, analysis>>

loadNets_throw(files) ==
    /\ CanCall("loadNets")
    /\ NodesEmpty(nodes_)
    /\ \E recs \in files : ThrowLogicError("loadNets", recs)

\* One iteration of the outer while loop: one net is parsed and appended.
loadNets_iter ==
    /\ pc = "loadNets" /\ ~spin
    /\ ~isEOF(buffer_, current_pos_)
    /\ LET p == skipWhitespace(buffer_, current_pos_)
           source_node_id == parseId(buffer_, p, "g")
           weight == parseInt(buffer_, source_node_id.pos)
           r == NetSinks(buffer_, weight.pos, nodes_, <<>>)
       IN  /\ ~isEOF(buffer_, p)
           /\ source_node_id.val \in DOMAIN nodes_
           /\ ~r.threw
           /\ nets_' = Append(nets_, [id |-> net_id_counter,
                                      source |-> source_node_id.val,
                                      sinks |-> r.sinks,
                                      weight |-> weight.val])
           /\ net_id_counter' = NextNetId(net_id_counter)
           /\ current_pos_' = r.pos
           /\ spin' = (r.pos = current_pos_)
    /\ UNCHANGED <<fpgas_, nodes_, topology_, pc, buffer_, max_fpga_id,
                   fpgas_data, thrown, called, input, entered, analysis>>

\* An iteration in which nodes_.at throws: the net is not appended.
loadNets_out_of_range ==
    /\ pc = "loadNets" /\ ~spin
    /\ ~isEOF(buffer_, current_pos_)
    /\ LET p == skipWhitespace(buffer_, current_pos_)
           source_node_id == parseId(buffer_, p, "g")
           weight == parseInt(buffer_, source_node_id.pos)
       IN  /\ ~isEOF(buffer_, p)
           /\ \/ source_node_id.val \notin DOMAIN nodes_
              \/ NetSinks(buffer_, weight.pos, nodes_, <<>>).threw
    /\ Leave("out_of_range")
    /\ UNCHANGED <<design, spin, called, input, entered, analysis>>

loadNets_return ==
    /\ pc = "loadNets" /\ ~spin
    /\ isEOF(buffer_, skipWhitespace(buffer_, current_pos_))
    /\ Leave("none")
    /\ UNCHANGED <<design, spin, called, input, entered, analysis>>

\* The mapping files loaded before the net files: g1, g2 on F1 and g3 on F2,
\* and g2 alone (g1 and g3 unknown).
ThreeNodes ==
    {<<[fpga |-> 1, nodes |-> <<1, 2>>], [fpga |-> 2, nodes |-> <<3>>]>>,
     <<[fpga |-> 2, nodes |-> <<2>>]>>}

\* The net files the model loads: up to two sinks per line.
NetFiles ==
    SeqUpTo([source : {1, 2, 3}, weight : {1, 2}, sinks : SeqUpTo({2, 3}, 2)],
            MaxLines)

NextNets ==
    \/ loadInfo_call({<<<<1, 7>>, <<2, 12>>>>})
    \/ loadInfo_iter
    \/ loadInfo_return
    \/ loadFpgaMapping_call(ThreeNodes)
    \/ loadFpgaMapping_iter
    \/ loadFpgaMapping_return
    \/ loadNets_call(NetFiles)
    \/ loadNets_throw({<<>>})
    \/ loadNets_iter
    \/ loadNets_out_of_range
    \/ loadNets_return

\* loadInfo and loadFpgaMapping, then loadNets on every net file.
SpecNets == Init /\ [][NextNets]_vars

(***************************************************************************)
(* Design::loadTopo                                                        *)
(***************************************************************************)
\* if (i < num_fpgas - 1) parser.skipChar(',');
NeedsDelimiter_OffByOne(i, num_fpgas) == i < num_fpgas - 2

NeedsDelimiter(i, num_fpgas) == i < num_fpgas - 1

\* The fill loop from column i (0-based): topology_[fpga_id - 1][i] = parseInt()
RECURSIVE TopoFill(_, _, _, _, _)
TopoFill(buf, pos, num_fpgas, i, row) ==
    IF i >= num_fpgas THEN [pos |-> pos, row |-> row]
    ELSE LET v == parseInt(buf, pos)
             q == IF NeedsDelimiter(i, num_fpgas) THEN skipChar(buf, v.pos, ",")
                  ELSE v.pos
         IN  TopoFill(buf, q, num_fpgas, i + 1, [row EXCEPT ![i + 1] = v.val])

\* if (fpga_id > 0 && (size_t)fpga_id <= num_fpgas)
TopoIdValid(fpga_id, num_fpgas) == fpga_id > 0 /\ fpga_id <= num_fpgas

\* topology_.resize(num_fpgas, std::vector<int>(num_fpgas))
ResizeTopology(topo, num_fpgas) ==
    Resize(topo, num_fpgas, [j \in 1..num_fpgas |-> 0])

loadTopo_call(files) ==
    /\ CanCall("loadTopo")
    /\ fpgas_ # <<>>
    /\ \E recs \in files : Enter("loadTopo", recs, TopoText(recs))
    /\ topology_' = ResizeTopology(topology_, Len(fpgas_))
    /\ UNCHANGED <<fpgas_, nodes_, nets_, locals, spin, analysis>>

loadTopo_throw(files) ==
    /\ CanCall("loadTopo")
    /\ fpgas_ = <<>>
    /\ \E recs \in files : ThrowLogicError("loadTopo", recs)

\* One iteration of the while loop: one "F<id>:" and, when the id is valid,
\* the num_fpgas values of its row.
loadTopo_iter ==
    /\ pc = "loadTopo" /\ ~spin
    /\ ~isEOF(buffer_, current_pos_)
    /\ LET p == skipWhitespace(buffer_, current_pos_)
           num_fpgas == Len(fpgas_)
       IN  /\ ~isEOF(buffer_, p)
           /\ LET fpga_id == parseId(buffer_, p, "F")
                  q == skipChar(buffer_, fpga_id.pos, ":")
              IN  IF TopoIdValid(fpga_id.val, num_fpgas)
                  THEN LET r == TopoFill(buffer_, q, num_fpgas, 0,
                                         topology_[fpga_id.val])
                       IN  /\ topology_' = [topology_ EXCEPT ![fpga_id.val] = r.row]
                           /\ current_pos_' = r.pos
                           /\ spin' = (r.pos = current_pos_)
                  ELSE /\ current_pos_' = q
                       /\ spin' = (q = current_pos_)
                       /\ UNCHANGED topology_
    /\ UNCHANGED <<fpgas_, nodes_, nets_, pc, buffer_, locals, thrown, called,
                   input, entered, analysis>>

loadTopo_return ==
    /\ pc = "loadTopo" /\ ~spin
    /\ isEOF(buffer_, skipWhitespace(buffer_, current_pos_))
    /\ Leave("none")
    /\ UNCHANGED <<design, spin, called, input, entered, analysis>>

\* Channel counts: one that is also an FPGA id, one of two digits.
TopoVals == {0, 1, 15}

\* The topology files the model loads for N FPGAs: rows of N values, under
\* FPGA ids up to MaxFpgaId + 1.
TopoFiles(N) ==
    SeqUpTo([fpga : 1..(MaxFpgaId + 1), row : [1..N -> TopoVals]], MaxLines)

NextTopo ==
    \/ loadInfo_call(TwoFpgas)
    \/ loadInfo_iter
    \/ loadInfo_return
    \/ loadTopo_call(TopoFiles(Len(fpgas_)))
    \/ loadTopo_throw({<<>>})
    \/ loadTopo_iter
    \/ loadTopo_return

\* loadInfo, then loadTopo on every topology file.
SpecTopo == Init /\ [][NextTopo]_vars

(***************************************************************************)
(* Design::generateVisualizationData: the logical-demand matrix            *)
(***************************************************************************)
\* node->fpga->id
FpgaIdOf(fpgas, nodes, n) == fpgas[nodes[n].fpga].id

\* The <<src_fpga_idx, sink_fpga_idx>> (0-based) of every sink of every net
\* that passes the test src_fpga_idx != sink_fpga_idx, in the loops' order.
DemandPairs(fpgas, nodes, nets) ==
    Concat([k \in 1..Len(nets) |->
        IF nodes[nets[k].source].fpga = nullptr THEN <<>>
        ELSE LET src_fpga_idx == FpgaIdOf(fpgas, nodes, nets[k].source) - 1
                 sinks == SelectSeq(nets[k].sinks,
                                    LAMBDA n : nodes[n].fpga # nullptr)
             IN  Concat([s \in 1..Len(sinks) |->
                     LET sink_fpga_idx == FpgaIdOf(fpgas, nodes, sinks[s]) - 1
                     IN  IF src_fpga_idx # sink_fpga_idx
                         THEN <<<<src_fpga_idx, sink_fpga_idx>>>> ELSE <<>>])])

\* logical_demand[src][sink]++; logical_demand[sink][src]++;
Increment_OneWay(demand, src, sink) ==
    [demand EXCEPT ![src + 1][sink + 1] = @ + 1]

Increment(demand, src, sink) ==
    LET d == [demand EXCEPT ![src + 1][sink + 1] = @ + 1]
    IN  [d EXCEPT ![sink + 1][src + 1] = @ + 1]

\* Both indices are inside the num_fpgas x num_fpgas matrix.
InMatrix(pair, num_fpgas) ==
    pair[1] \in 0..(num_fpgas - 1) /\ pair[2] \in 0..(num_fpgas - 1)

\* The increments of the pairs whose indices are inside the matrix.
RECURSIVE AddDemand(_, _, _)
AddDemand(demand, pairs, num_fpgas) ==
    IF pairs = <<>> THEN demand
    ELSE AddDemand(IF InMatrix(Head(pairs), num_fpgas)
                   THEN Increment(demand, Head(pairs)[1], Head(pairs)[2])
                   ELSE demand,
                   Tail(pairs), num_fpgas)

\* std::vector<std::vector<int>> logical_demand(num_fpgas, ...(num_fpgas, 0))
ZeroMatrix(num_fpgas) == [i \in 1..num_fpgas |-> [j \in 1..num_fpgas |-> 0]]

\* if (fpgas_.empty() || nets_.empty() || topology_.empty()) throw
VisualizationNotLoaded == fpgas_ = <<>> \/ nets_ = <<>> \/ topology_ = <<>>

\* An index outside the matrix is used: operator[] of std::vector does not
\* check it, the behaviour is undefined.
DemandOutOfBounds ==
    \E k \in DOMAIN DemandPairs(fpgas_, nodes_, nets_) :
        ~InMatrix(DemandPairs(fpgas_, nodes_, nets_)[k], Len(fpgas_))

generateVisualizationData_throw ==
    /\ pc = "idle"
    /\ VisualizationNotLoaded
    /\ called' = "generateVisualizationData"
    /\ thrown' = "logic_error"
    /\ UNCHANGED <<design, pc, parser, locals, spin, input, entered, analysis>>

\* The demand loop when every index is inside the matrix.
generateVisualizationData ==
    /\ CanCall("generateVisualizationData")
    /\ entered' = entered \cup {"generateVisualizationData"}
    /\ ~VisualizationNotLoaded
    /\ ~DemandOutOfBounds
    /\ logical_demand' = AddDemand(ZeroMatrix(Len(fpgas_)),
                                   DemandPairs(fpgas_, nodes_, nets_), Len(fpgas_))
    /\ called' = "generateVisualizationData"
    /\ thrown' = "none"
    /\ UNCHANGED <<design, pc, parser, locals, spin, input, connectionGroups,
                   result>>

\* The demand loop when an index is outside the matrix (a node on a slot of
\* fpgas_ that holds the sentinel has index -2).  The write goes to memory
\* the matrix does not own: the run crashes, or it goes on with the matrix as
\* the other writes left it, or with one cell of it hit by the stray write.
generateVisualizationData_undefined ==
    /\ CanCall("generateVisualizationData")
    /\ entered' = entered \cup {"generateVisualizationData"}
    /\ ~VisualizationNotLoaded
    /\ DemandOutOfBounds
    /\ LET N == Len(fpgas_)
           written == AddDemand(ZeroMatrix(N), DemandPairs(fpgas_, nodes_, nets_), N)
       IN  \/ /\ thrown' = "crash"
              /\ logical_demand' = <<>>
           \/ /\ thrown' = "none"
              /\ logical_demand' = written
           \/ /\ thrown' = "none"
              /\ \E i \in 1..N, j \in 1..N :
                    logical_demand' = [written EXCEPT ![i][j] = @ + 1]
    /\ called' = "generateVisualizationData"
    /\ UNCHANGED <<design, pc, parser, locals, spin, input, connectionGroups,
                   result>>

(***************************************************************************)
(* Design::groupNetsByFpgaConnection                                       *)
(***************************************************************************)
\* sinkFpgaCounts: FPGA id -> number of the net's sinks on it, without the
\* FPGA of the source.
SinkFpgaCounts(fpgas, nodes, net) ==
    LET srcFpgaId == FpgaIdOf(fpgas, nodes, net.source)
        sinks == SelectSeq(net.sinks, LAMBDA n : nodes[n].fpga # nullptr)
        ids == {FpgaIdOf(fpgas, nodes, sinks[s]) : s \in DOMAIN sinks}
                  \ {srcFpgaId}
    IN  [f \in ids |->
            Cardinality({s \in DOMAIN sinks :
                            FpgaIdOf(fpgas, nodes, sinks[s]) = f})]

\* The keys of a std::map<int, int> in iteration (ascending) order.
RECURSIVE Ascending(_)
Ascending(S) ==
    IF S = {} THEN <<>>
    ELSE LET m == CHOOSE x \in S : \A y \in S : x <= y
         IN  <<m>> \o Ascending(S \ {m})

\* std::to_string(pair.first) + "(" + std::to_string(pair.second) + ")"
PatternEntry_NoCount(id, count) == to_string(id) \o <<"(", ")">>

PatternEntry(id, count) ==
    to_string(id) \o <<"(">> \o to_string(count) \o <<")">>

\* The loop over sinkFpgaCounts: a "," goes before an entry when the pattern
\* is already longer than "<srcFpgaId>:".
RECURSIVE AppendEntries(_, _, _, _)
AppendEntries(connectionPattern, keys, counts, srcFpgaId) ==
    IF keys = <<>> THEN connectionPattern
    ELSE LET sep == IF Len(connectionPattern) > Len(to_string(srcFpgaId)) + 1
                    THEN <<",">> ELSE <<>>
         IN  AppendEntries(connectionPattern \o sep
                              \o PatternEntry(Head(keys), counts[Head(keys)]),
                           Tail(keys), counts, srcFpgaId)

\* connectionPattern of a net: "srcFPGA_id:sinkFPGA1_id(count),..."
ConnectionPattern(fpgas, nodes, net) ==
    LET srcFpgaId == FpgaIdOf(fpgas, nodes, net.source)
        counts == SinkFpgaCounts(fpgas, nodes, net)
    IN  AppendEntries(to_string(srcFpgaId) \o <<":">>,
                      Ascending(DOMAIN counts), counts, srcFpgaId)

\* connectionGroups after the loop over nets_: pattern -> net ids, in order.
\* A net whose source has no FPGA is skipped.
GroupsOf(fpgas, nodes, all_nets) ==
    LET nets == SelectSeq(all_nets, LAMBDA net : nodes[net.source].fpga # nullptr)
        pattern == [k \in 1..Len(nets) |-> ConnectionPattern(fpgas, nodes, nets[k])]
    IN  [key \in Range(pattern) |->
            Concat([k \in 1..Len(nets) |->
                       IF pattern[k] = key THEN <<nets[k].id>> ELSE <<>>])]

\* The characters of a pattern, in the order of their codes ('(' < ')' < ','
\* < '-' < '0' .. '9' < ':'), by which std::map<std::string, ...> compares.
CodeOrder == <<"(", ")", ",", "-", "0", "1", "2", "3", "4", "5", "6", "7", "8",
               "9", ":">>

CharCode(c) == CHOOSE k \in 1..Len(CodeOrder) : CodeOrder[k] = c

\* std::string's operator<
StringLess(a, b) ==
    \E k \in 1..(Len(b)) :
        /\ \A j \in 1..(k - 1) : j <= Len(a) /\ a[j] = b[j]
        /\ \/ k = Len(a) + 1
           \/ k <= Len(a) /\ CharCode(a[k]) < CharCode(b[k])

\* The keys of a std::map<std::string, ...> in iteration order.
RECURSIVE KeyOrder_Descending(_)
KeyOrder_Descending(S) ==
    IF S = {} THEN <<>>
    ELSE LET m == CHOOSE x \in S : \A y \in S : x = y \/ StringLess(y, x)
         IN  <<m>> \o KeyOrder_Descending(S \ {m})

RECURSIVE KeyOrder(_)
KeyOrder(S) ==
    IF S = {} THEN <<>>
    ELSE LET m == CHOOSE x \in S : \A y \in S : x = y \/ StringLess(x, y)
         IN  <<m>> \o KeyOrder(S \ {m})

\* if (nets_.empty() || fpgas_.empty()) throw
GroupingNotLoaded == nets_ = <<>> \/ fpgas_ = <<>>

groupNetsByFpgaConnection_throw ==
    /\ pc = "idle"
    /\ GroupingNotLoaded
    /\ called' = "groupNetsByFpgaConnection"
    /\ thrown' = "logic_error"
    /\ UNCHANGED <<design, pc, parser, locals, spin, input, entered, analysis>>

groupNetsByFpgaConnection ==
    /\ CanCall("groupNetsByFpgaConnection")
    /\ entered' = entered \cup {"groupNetsByFpgaConnection"}
    /\ ~GroupingNotLoaded
    /\ connectionGroups' = GroupsOf(fpgas_, nodes_, nets_)
    /\ result' = [g \in 1..Len(KeyOrder(DOMAIN connectionGroups')) |->
                     connectionGroups'[KeyOrder(DOMAIN connectionGroups')[g]]]
    /\ called' = "groupNetsByFpgaConnection"
    /\ thrown' = "none"
    /\ UNCHANGED <<design, pc, parser, locals, spin, input, logical_demand>>

(***************************************************************************)
(* The specifications over the whole Design                                *)
(***************************************************************************)
Loaders == {"loadInfo", "loadFpgaMapping", "loadNets", "loadTopo"}

\* A few files of each kind, the empty file among them.
FewInfoFiles == TwoFpgas \cup {<<>>}

FewMappingFiles == ThreeNodes \cup {<<>>}

FewNetFiles ==
    {<<>>,
     <<[source |-> 1, weight |-> 1, sinks |-> <<2, 3>>]>>,
     <<[source |-> 2, weight |-> 1, sinks |-> <<2>>]>>}

FewTopoFiles ==
    {<<>>, <<[fpga |-> 1, row |-> <<0, 4>>], [fpga |-> 2, row |-> <<4, 0>>]>>}

\* The loaders called in any order, each on a few files, and the analyses.
Next ==
    \/ loadInfo_call(FewInfoFiles)
    \/ loadInfo_iter
    \/ loadInfo_return
    \/ loadFpgaMapping_call(FewMappingFiles)
    \/ loadFpgaMapping_throw(FewMappingFiles)
    \/ loadFpgaMapping_iter
    \/ loadFpgaMapping_return
    \/ loadNets_call(FewNetFiles)
    \/ loadNets_throw(FewNetFiles)
    \/ loadNets_iter
    \/ loadNets_out_of_range
    \/ loadNets_return
    \/ loadTopo_call(FewTopoFiles)
    \/ loadTopo_throw(FewTopoFiles)
    \/ loadTopo_iter
    \/ loadTopo_return
    \/ generateVisualizationData_throw
    \/ generateVisualizationData
    \/ generateVisualizationData_undefined
    \/ groupNetsByFpgaConnection_throw
    \/ groupNetsByFpgaConnection

Spec == Init /\ [][Next]_vars

\* main() calls the loaders in this order and stops at the first exception.
Pipeline == <<"loadInfo", "loadFpgaMapping", "loadNets", "loadTopo">>

InOrder(k) == entered = {Pipeline[j] : j \in 1..(k - 1)} /\ thrown = "none"

\* All four files are loaded.
Finished == pc = "idle" /\ Loaders \subseteq entered /\ thrown \in {"none", "crash"}

\* The files of the analysed designs: three FPGAs, or F1 and F3 with the slot
\* of F2 left to the sentinel; the nodes placed in four ways (g3 unknown in
\* the last).
ThreeFpgas == {<<<<1, 7>>, <<2, 12>>, <<3, 7>>>>, <<<<1, 7>>, <<3, 7>>>>}

PlacedNodes ==
    {<<[fpga |-> 1, nodes |-> <<1>>], [fpga |-> 2, nodes |-> <<2>>],
       [fpga |-> 3, nodes |-> <<3>>]>>,
     <<[fpga |-> 1, nodes |-> <<1, 2>>], [fpga |-> 2, nodes |-> <<3>>]>>,
     <<[fpga |-> 3, nodes |-> <<1, 3>>], [fpga |-> 1, nodes |-> <<2>>]>>,
     <<[fpga |-> 2, nodes |-> <<1, 2>>]>>}

\* A net file of three lines, for two nets of one pattern after a net of
\* another.
ThreeNetFiles ==
    {<<[source |-> 2, weight |-> 1, sinks |-> <<>>],
       [source |-> 1, weight |-> 1, sinks |-> <<3>>],
       [source |-> 1, weight |-> 1, sinks |-> <<3>>]>>}

AnalysedNetFiles ==
    SeqUpTo([source : {1, 2}, weight : {1}, sinks : SeqUpTo({2, 3}, 2)],
            MaxLines) \cup ThreeNetFiles

AnalysedTopoFiles == {<<[fpga |-> 1, row |-> <<0, 4, 0>>]>>}

NextAnalysis ==
    \/ InOrder(1) /\ loadInfo_call(ThreeFpgas)
    \/ loadInfo_iter
    \/ loadInfo_return
    \/ InOrder(2) /\ loadFpgaMapping_call(PlacedNodes)
    \/ loadFpgaMapping_iter
    \/ loadFpgaMapping_return
    \/ InOrder(3) /\ loadNets_call(AnalysedNetFiles)
    \/ loadNets_iter
    \/ loadNets_out_of_range
    \/ loadNets_return
    \/ InOrder(4) /\ loadTopo_call(AnalysedTopoFiles)
    \/ loadTopo_iter
    \/ loadTopo_return
    \/ Finished /\ generateVisualizationData
    \/ Finished /\ generateVisualizationData_undefined
    \/ Finished /\ groupNetsByFpgaConnection

\* main's pipeline on the analysed designs, then the two analyses.
SpecAnalysis == Init /\ [][NextAnalysis]_vars

\* A character that is neither whitespace, a digit, a prefix nor a delimiter.
Junk == "x"

\* The texts that are text with one junk character put somewhere into it.
WithJunk(text) ==
    {SubSeq(text, 1, k) \o <<Junk>> \o SubSeq(text, k + 1, Len(text)) :
        k \in 0..Len(text)}

\* The loaders called on a file that holds a junk character.
loadInfo_junk(files) ==
    /\ CanCall("loadInfo")
    /\ \E recs \in files : \E text \in WithJunk(InfoText(recs)) :
          Enter("loadInfo", recs, text)
    /\ max_fpga_id' = 0
    /\ fpgas_data' = <<>>
    /\ UNCHANGED <<design, net_id_counter, spin, analysis>>

loadFpgaMapping_junk(files) ==
    /\ CanCall("loadFpgaMapping")
    /\ fpgas_ # <<>>
    /\ \E recs \in files : \E text \in WithJunk(MappingText(recs)) :
          Enter("loadFpgaMapping", recs, text)
    /\ UNCHANGED <<design, locals, spin, analysis>>

loadNets_junk(files) ==
    /\ CanCall("loadNets")
    /\ ~NodesEmpty(nodes_)
    /\ \E recs \in files : \E text \in WithJunk(NetText(recs)) :
          Enter("loadNets", recs, text)
    /\ net_id_counter' = 1
    /\ UNCHANGED <<design, max_fpga_id, fpgas_data, spin, analysis>>

loadTopo_junk(files) ==
    /\ CanCall("loadTopo")
    /\ fpgas_ # <<>>
    /\ \E recs \in files : \E text \in WithJunk(TopoText(recs)) :
          Enter("loadTopo", recs, text)
    /\ topology_' = ResizeTopology(topology_, Len(fpgas_))
    /\ UNCHANGED <<fpgas_, nodes_, nets_, locals, spin, analysis>>

\* Well-formed files with every id in range; g0 is a node of one mapping.
JunkInfoFiles == {<<<<1, 7>>, <<2, 12>>>>}

JunkMappingFiles ==
    {<<[fpga |-> 1, nodes |-> <<1, 2>>]>>, <<[fpga |-> 2, nodes |-> <<0, 1>>]>>}

JunkNetFiles ==
    {<<[source |-> 1, weight |-> 1, sinks |-> <<>>]>>,
     <<[source |-> 1, weight |-> 1, sinks |-> <<1>>]>>}

JunkTopoFiles ==
    {<<[fpga |-> 1, row |-> <<0, 1>>], [fpga |-> 2, row |-> <<1, 0>>]>>}

NextJunk ==
    \/ loadInfo_call(JunkInfoFiles)
    \/ loadInfo_junk(JunkInfoFiles)
    \/ loadInfo_iter
    \/ loadInfo_return
    \/ loadFpgaMapping_call(JunkMappingFiles)
    \/ loadFpgaMapping_junk(JunkMappingFiles)
    \/ loadFpgaMapping_iter
    \/ loadFpgaMapping_return
    \/ loadNets_call(JunkNetFiles)
    \/ loadNets_junk(JunkNetFiles)
    \/ loadNets_iter
    \/ loadNets_out_of_range
    \/ loadNets_return
    \/ loadTopo_call(JunkTopoFiles)
    \/ loadTopo_junk(JunkTopoFiles)
    \/ loadTopo_iter
    \/ loadTopo_return

\* The loaders in any order, on the files above with and without a junk
\* character.
SpecJunk == Init /\ [][NextJunk]_vars

(***************************************************************************)
(* Claims                                                                  *)
(***************************************************************************)
MaxOf(S) == IF S = {} THEN 0 ELSE CHOOSE m \in S : \A x \in S : x <= m

\* The last call was of this loader and it returned normally.
Loaded(loader) == pc = "idle" /\ called = loader /\ thrown = "none"

InfoIds(recs) == {recs[k][1] : k \in DOMAIN recs}

\* The maxIo of the last pair of recs with this id.
LastIo(recs, id) == recs[MaxOf({k \in DOMAIN recs : recs[k][1] = id})][2]

\* C1: after loadInfo on a well-formed info file, fpgas_ has as many slots as
\* the largest id of the file; slot i holds (i, the maxIo of the last pair with
\* id i) when the file names id i, and the sentinel (-1, 0) when it does not.
C1_InfoTable ==
    Loaded("loadInfo") =>
        /\ Len(fpgas_) = MaxOf(InfoIds(input))
        /\ \A i \in 1..Len(fpgas_) :
              IF i \in InfoIds(input)
              THEN fpgas_[i].id = i /\ fpgas_[i].max_io = LastIo(input, i)
              ELSE fpgas_[i].id = -1 /\ fpgas_[i].max_io = 0

\* An id given twice with different maxIo, and a slot no pair names.
C1_Witness ==
    /\ Loaded("loadInfo")
    /\ Len(input) = 2
    /\ input[1][1] = input[2][1]
    /\ input[1][2] # input[2][2]
    /\ \E i \in 1..Len(fpgas_) : fpgas_[i].id = -1


\* The node ids a mapping file lists.
MappingListed(recs) == UNION {Range(recs[k].nodes) : k \in DOMAIN recs}

\* The FPGA id of the last line of recs that lists node n.
LastFpgaOf(recs, n) ==
    recs[MaxOf({k \in DOMAIN recs : n \in Range(recs[k].nodes)})].fpga

\* C2: after loadFpgaMapping completes, every node id the file lists is a node
\* whose FPGA reference is the FPGA of the last line that lists it.
C2_LastAssignmentWins ==
    Loaded("loadFpgaMapping") =>
        \A n \in MappingListed(input) :
            n \in DOMAIN nodes_ /\ nodes_[n].fpga = LastFpgaOf(input, n)

\* A node listed under one FPGA and later under another one.
C2_Witness ==
    /\ Loaded("loadFpgaMapping")
    /\ Len(input) = 2
    /\ input[1].fpga # input[2].fpga
    /\ Range(input[1].nodes) \cap Range(input[2].nodes) # {}

\* The lines of a mapping or topology file whose FPGA id is in [1, N].
InRange(recs, N) == SelectSeq(recs, LAMBDA r : r.fpga \in 1..N)

\* The node ids listed under FPGA f, in file order.
ListedUnder(recs, f) ==
    Concat([k \in 1..Len(recs) |-> IF recs[k].fpga = f THEN recs[k].nodes ELSE <<>>])

\* C10: a mapping file with a line whose FPGA id is outside [1, N] is loaded
\* without an error and to the end (the loader does not stay in its loop for
\* ever), and the result is the one of the file without that line.
C10_SkipsLineAndCompletes ==
    (called = "loadFpgaMapping" /\ InRange(input, Len(fpgas_)) # input) =>
        /\ thrown = "none"
        /\ ~spin
        /\ pc = "idle" =>
              LET kept == InRange(input, Len(fpgas_))
              IN  /\ DOMAIN nodes_ = MappingListed(kept)
                  /\ \A n \in DOMAIN nodes_ : nodes_[n].fpga = LastFpgaOf(kept, n)
                  /\ \A f \in 1..Len(fpgas_) :
                        fpgas_[f].nodes = ListedUnder(kept, f)

\* C3: after loadNets returns from a file of K lines, nets_ has K entries and
\* the i-th has id i.
C3_NetIdsDense ==
    Loaded("loadNets") =>
        /\ Len(nets_) = Len(input)
        /\ \A i \in 1..Len(nets_) : nets_[i].id = i

\* A file of more than one line was loaded.
C3_Witness == Loaded("loadNets") /\ Len(input) >= 2 /\ Len(nets_) >= 2

\* C4: after loadNets returns from a well-formed file, the i-th net has the
\* source and the sinks of line i, in order, and weight 1.
C4_NetsMatchLines ==
    Loaded("loadNets") =>
        /\ Len(nets_) = Len(input)
        /\ \A i \in 1..Len(nets_) :
              /\ nets_[i].source = input[i].source
              /\ nets_[i].sinks = input[i].sinks
              /\ nets_[i].weight = 1

\* The node ids a net file names.
NetFileIds(recs) ==
    UNION {{recs[k].source} \cup Range(recs[k].sinks) : k \in DOMAIN recs}

\* C5: loadNets creates no node and appends no net with an unknown source or
\* sink, and it returns normally only from a file all of whose node ids are
\* known: an unknown id makes it throw std::out_of_range.
C5_LookupFailsHard ==
    [][pc = "loadNets" =>
          /\ nodes_' = nodes_
          /\ \A i \in 1..Len(nets_') :
                /\ nets_'[i].source \in DOMAIN nodes_
                /\ Range(nets_'[i].sinks) \subseteq DOMAIN nodes_
          /\ (pc' = "idle" /\ thrown' = "none")
                => NetFileIds(input) \subseteq DOMAIN nodes_
          /\ (pc' = "idle" /\ thrown' # "none") => thrown' = "out_of_range"]_vars

\* loadNets threw on a file that names an unknown node, after a first net.
C5_Witness ==
    /\ called = "loadNets" /\ pc = "idle" /\ thrown = "out_of_range"
    /\ ~(NetFileIds(input) \subseteq DOMAIN nodes_)
    /\ nets_ # <<>>

\* The last line of recs for FPGA f, or 0.
LastLineFor(recs, f) == MaxOf({k \in DOMAIN recs : recs[k].fpga = f})

\* C7: while loadTopo reads a file whose lines all name an id in [1, N],
\* topology_ is N x N, each iteration leaves the cursor right after the last
\* value of a line (N integers and N - 1 delimiters consumed), and at the
\* return row f holds the values of the last line for f, or zeros.
C7_TopologyRows ==
    [][(pc = "loadTopo" /\ InRange(input, Len(fpgas_)) = input) =>
          LET N == Len(fpgas_)
          IN  /\ Len(topology_') = N
              /\ \A f \in 1..N : Len(topology_'[f]) = N
              /\ pc' = "loadTopo" =>
                    \E k \in 1..Len(input) :
                        current_pos_' = Len(TopoText(SubSeq(input, 1, k))) - 1
              /\ pc' = "idle" =>
                    \A f \in 1..N :
                        topology_'[f] =
                            IF LastLineFor(input, f) = 0
                            THEN [j \in 1..N |-> 0]
                            ELSE input[LastLineFor(input, f)].row]_vars

\* A topology file with two lines for one FPGA and none for another.
C7_Witness ==
    /\ Loaded("loadTopo")
    /\ Len(input) = 2
    /\ input[1].fpga = input[2].fpga
    /\ input[1].row # input[2].row
    /\ input[1].fpga \in 1..Len(fpgas_)
    /\ \E f \in 1..Len(fpgas_) : LastLineFor(input, f) = 0

\* What a loader needs: the FPGA table, or the Node table.
Prerequisite(loader) ==
    CASE loader = "loadInfo" -> TRUE
      [] loader = "loadFpgaMapping" -> fpgas_ # <<>>
      [] loader = "loadTopo" -> fpgas_ # <<>>
      [] loader = "loadNets" -> DOMAIN nodes_ # {}

\* C6: a loader called while its prerequisite structure is empty throws
\* std::logic_error and changes none of fpgas_, nodes_, nets_, topology_; a
\* loader whose prerequisite is there (loadInfo always) enters its body.
C6_SequenceErrors ==
    [][(pc = "idle" /\ called' \in Loaders
            /\ <<pc, thrown, called, input>>' # <<pc, thrown, called, input>>) =>
          IF Prerequisite(called')
          THEN pc' = called' /\ thrown' = "none"
          ELSE /\ thrown' = "logic_error"
               /\ pc' = "idle"
               /\ design' = design]_vars

\* loadNets called after loadInfo but before any node exists.
C6_Witness ==
    /\ called = "loadNets" /\ thrown = "logic_error"
    /\ fpgas_ # <<>> /\ topology_ # <<>>
    /\ DOMAIN nodes_ = {}

\* C8: the demand matrix that generateVisualizationData computes is symmetric.
C8_DemandSymmetric ==
    logical_demand # <<>> =>
        \A i \in 1..Len(logical_demand), j \in 1..Len(logical_demand) :
            logical_demand[i][j] = logical_demand[j][i]

\* The FPGA id of the source of the a-th net, and the number of its sinks on
\* the FPGA of id f.
SourceFpga(a) == FpgaIdOf(fpgas_, nodes_, nets_[a].source)

SinksOn(a, f) ==
    Cardinality({s \in DOMAIN nets_[a].sinks :
                    FpgaIdOf(fpgas_, nodes_, nets_[a].sinks[s]) = f})

FpgaIdsInUse == {fpgas_[k].id : k \in DOMAIN fpgas_}

InSameGroup(a, b) ==
    \E g \in DOMAIN result :
        nets_[a].id \in Range(result[g]) /\ nets_[b].id \in Range(result[g])

\* C9: two nets are in the same group of the result exactly when they have
\* the same source FPGA id and, on every other FPGA id, the same number of
\* sinks.
C9_GroupsByPattern ==
    (called = "groupNetsByFpgaConnection" /\ thrown = "none") =>
        \A a \in DOMAIN nets_, b \in DOMAIN nets_ :
            InSameGroup(a, b) <=>
                /\ SourceFpga(a) = SourceFpga(b)
                /\ \A f \in FpgaIdsInUse \ {SourceFpga(a)} :
                      SinksOn(a, f) = SinksOn(b, f)

\* Two nets of one group whose sink lists differ (in order, or by sinks on
\* the FPGA of the source), with sinks counted.
C9_Witness ==
    /\ called = "groupNetsByFpgaConnection" /\ thrown = "none"
    /\ \E a \in DOMAIN nets_, b \in DOMAIN nets_ :
          /\ a # b
          /\ InSameGroup(a, b)
          /\ nets_[a].sinks # nets_[b].sinks
          /\ \E f \in FpgaIdsInUse \ {SourceFpga(a)} : SinksOn(a, f) > 0

\* The matrix of a topology file for N FPGAs: row f holds the values of the
\* last line for f, or zeros.
TopologyOf(recs, N) ==
    [f \in 1..N |-> IF LastLineFor(recs, f) = 0 THEN [j \in 1..N |-> 0]
                    ELSE recs[LastLineFor(recs, f)].row]

\* C11: a topology line whose FPGA id is outside [1, N] writes no cell:
\* loadTopo comes to its return, and the matrix is then the matrix of the
\* file without its out-of-range lines.
C11_OutOfRangeLineIgnored ==
    /\ (pc = "loadTopo" => ~spin)
    /\ Loaded("loadTopo") =>
          topology_ = TopologyOf(InRange(input, Len(fpgas_)), Len(fpgas_))

\* The (net, sink occurrence) pairs whose source and sink are on the FPGAs of
\* ids f and g, in either direction.
PairsBetween(f, g) ==
    {<<a, s>> \in (DOMAIN nets_) \X (1..(2 * MaxLines)) :
        /\ s \in DOMAIN nets_[a].sinks
        /\ {SourceFpga(a), FpgaIdOf(fpgas_, nodes_, nets_[a].sinks[s])} = {f, g}}

\* C12: the matrix of generateVisualizationData has 0 on its diagonal and,
\* in cell [i][j] with i # j, the number of (net, sink occurrence) pairs
\* between the FPGAs of ids i + 1 and j + 1 (cells are 1-based here).
C12_DemandCounts ==
    called = "generateVisualizationData" =>
        /\ thrown = "none"
        /\ Len(logical_demand) = Len(fpgas_)
        /\ \A i \in 1..Len(fpgas_), j \in 1..Len(fpgas_) :
              logical_demand[i][j] =
                  IF i = j THEN 0 ELSE Cardinality(PairsBetween(i, j))

\* The connection pattern of the nets of a group (that of its first net).
KeyOf(group) ==
    LET a == CHOOSE k \in DOMAIN nets_ : nets_[k].id = group[1]
    IN  ConnectionPattern(fpgas_, nodes_, nets_[a])

\* a is before b in the order of character codes, a prefix before a longer
\* string.
RECURSIVE LexLess(_, _)
LexLess(a, b) ==
    IF b = <<>> THEN FALSE
    ELSE IF a = <<>> THEN TRUE
    ELSE IF Head(a) = Head(b) THEN LexLess(Tail(a), Tail(b))
    ELSE CharCode(Head(a)) < CharCode(Head(b))

\* C13: in the result of groupNetsByFpgaConnection the groups come in the
\* ascending order of their patterns, and in each group the net ids are in
\* file order, strictly ascending.
C13_GroupsInKeyOrder ==
    (called = "groupNetsByFpgaConnection" /\ thrown = "none") =>
        /\ \A g \in DOMAIN result, h \in DOMAIN result :
              g < h => LexLess(KeyOf(result[g]), KeyOf(result[h]))
        /\ \A g \in DOMAIN result :
              \A k \in DOMAIN result[g], l \in DOMAIN result[g] :
                  k < l => result[g][k] < result[g][l]

\* Two nets in the first group, after a net of the file that is in the
\* second group.
C13_Witness ==
    /\ called = "groupNetsByFpgaConnection" /\ thrown = "none"
    /\ Len(result) >= 2
    /\ Len(result[1]) >= 2
    /\ result[2][1] < result[1][1]

IsPrefix(a, b) == Len(a) <= Len(b) /\ SubSeq(b, 1, Len(a)) = a

\* C14: no step of loadFpgaMapping removes an entry of an FPGA's node list,
\* and when it returns each list is the sequence of the node ids listed under
\* that FPGA's lines, in file order and with every repetition.
C14_NodeListsAppendOnly ==
    [][pc = "loadFpgaMapping" =>
          /\ \A f \in DOMAIN fpgas_ : IsPrefix(fpgas_[f].nodes, fpgas_'[f].nodes)
          /\ (pc' = "idle" /\ thrown' = "none") =>
                \A f \in DOMAIN fpgas_ :
                    fpgas_'[f].nodes = ListedUnder(input, f)]_vars

\* A node listed under F1 and later under F2: it is in both lists and its
\* FPGA is F2.
C14_Witness ==
    /\ Loaded("loadFpgaMapping")
    /\ Len(fpgas_) >= 2
    /\ \E n \in DOMAIN nodes_ :
          /\ nodes_[n].fpga = 2
          /\ n \in Range(fpgas_[1].nodes)
          /\ n \in Range(fpgas_[2].nodes)
          /\ input[Len(input)].fpga = 2

\* C15: every iteration of a loader's outer or inner loop advances the cursor
\* or leaves the loop, so no loader stays in its loop for ever.
C15_EveryIterationAdvances == ~spin

\* C16: after loadInfo and loadFpgaMapping every node is on a defined FPGA:
\* the id of the FPGA it refers to is in [1, N] (and not the -1 of a slot the
\* info file does not mention), so id - 1 is an index of the demand matrix.
C16_NodesOnDefinedFpgas ==
    Loaded("loadFpgaMapping") =>
        \A n \in DOMAIN nodes_ :
            /\ nodes_[n].fpga # nullptr
            /\ FpgaIdOf(fpgas_, nodes_, n) \in 1..Len(fpgas_)
            /\ InMatrix(<<FpgaIdOf(fpgas_, nodes_, n) - 1,
                          FpgaIdOf(fpgas_, nodes_, n) - 1>>, Len(fpgas_))

====
